---- MODULE Spec2Model ----
(***************************************************************************)
(* Model of dumux/material/fluidstate.hh: the class template               *)
(* FluidState<Scalar, Implementation>.  The template is bound to an        *)
(* Implementation (compilation), an instance is constructed, and the nine  *)
(* const accessors are called on it, either through the concrete type or   *)
(* through the FluidState<Scalar, Implementation> base.                    *)
(*                                                                         *)
(* Scalars are kept as integer multiples of 1/Scale.                       *)
(***************************************************************************)
EXTENDS Integers, Sequences, FiniteSets, TLC

VARIABLES
    impl,       \* the Implementation type the template is bound to
    stage,      \* "unbound", "rejected", "bound", "constructed"
    resolved,   \* what Implementation::<name> resolved to when compiling
    executed,   \* constructor statements that were executed at run time
    ctorI,      \* the constructor's local `int i`: <<>> while uninitialised
    obj,        \* the data members of the instance
    last,       \* the latest sequential accessor call and its outcome
    ncalls,     \* number of sequential accessor calls made so far
    pc,         \* per reader thread: "idle", "called", "returned"
    cur,        \* per reader thread: the call in progress
    ret         \* per reader thread: the outcome of the finished call

vars ==
    <<impl, stage, resolved, executed, ctorI, obj, last, ncalls, pc, cur, ret>>

----------------------------------------------------------------------------
(* Bounds *)

\* Implementation constants take the values 0..MaxCount.
MaxCount == 2
\* Index arguments range over -1..MaxIdx.
MaxIdx == 2
\* Number of sequential accessor calls that are followed.
MaxCalls == 2
\* Number of concurrent reader threads.
NumReaders == 2

Indices == (0 - 1)..MaxIdx
Readers == 1..NumReaders

----------------------------------------------------------------------------
(* The contract: FluidState<Scalar, Implementation> *)

\* The enum declarations of the class body, one sequence of enumerators per
\* enum, in declaration order.
SingleEnum == << <<"numPhases", "numComponents", "numSolvents">> >>
EnumDecls == << <<"numPhases">>, <<"numComponents">>, <<"numSolvents">> >>

\* The names the class itself declares.
BaseDeclared ==
    UNION { { EnumDecls[e][k] : k \in DOMAIN EnumDecls[e] } : e \in DOMAIN EnumDecls }

\* An enumerator without initialiser has the value of its position in its
\* enum, counted from 0.
EnumValue(n) ==
    LET e == CHOOSE d \in DOMAIN EnumDecls :
                 \E k \in DOMAIN EnumDecls[d] : EnumDecls[d][k] = n
        k == CHOOSE j \in DOMAIN EnumDecls[e] : EnumDecls[e][j] = n
    IN  k - 1

\* The names the constructor body refers to as Implementation::<name>.
CtorReferences == <<"numPhases", "numComponents", "numSolvents">>
ConstNames == { CtorReferences[k] : k \in DOMAIN CtorReferences }

\* The condition of the constructor's `if (0)`.
CtorCondition == 0
CtorBranchAlways == TRUE
CtorBranchTaken == CtorCondition # 0

\* The accessors and their int parameters.
Accessors ==
    { "saturation", "moleFrac", "phaseConcentration", "concentration",
      "density", "averageMolarMass", "fugacity", "phasePressure",
      "temperature" }

Params(op) ==
    CASE op = "saturation"         -> <<"phaseIdx">>
      [] op = "moleFrac"           -> <<"phaseIdx", "compIdx">>
      [] op = "phaseConcentration" -> <<"phaseIdx">>
      [] op = "concentration"      -> <<"phaseIdx", "compIdx">>
      [] op = "density"            -> <<"phaseIdx">>
      [] op = "averageMolarMass"   -> <<"phaseIdx">>
      [] op = "fugacity"           -> <<"componentIdx">>
      [] op = "phasePressure"      -> <<"phaseIdx">>
      [] op = "temperature"        -> <<>>

ArgSets(op) == [1..Len(Params(op)) -> Indices]

\* The message literal of each accessor's DUNE_THROW.
Message(op) ==
    CASE op = "saturation"         -> "FluidState::saturation()"
      [] op = "moleFrac"           -> "FluidState::moleFrac()"
      [] op = "phaseConcentration" -> "FluidState::phaseConcentration()"
      [] op = "concentration"      -> "FluidState::concentration()"
      [] op = "density"            -> "FluidState::density()"
      [] op = "averageMolarMass"   -> "FluidState::averageMolarMass()"
      [] op = "fugacity"           -> "FluidState::fugacity()"
      [] op = "phasePressure"      -> "FluidState::totalPressure()"
      [] op = "temperature"        -> "FluidState::temperature()"

\* Outcomes of a call: a returned Scalar or a thrown exception.
Returned(v) == [kind |-> "value", msg |-> "", value |-> v]
Thrown(class, m) == [kind |-> class, msg |-> m, value |-> 0]
NoOutcome == [kind |-> "none", msg |-> "", value |-> 0]

----------------------------------------------------------------------------
(* Implementations *)

Scale == 100
StubPhases == 2
StubComponents == 2

Fixtures == {"Minimal", "Stub"}

\* The accessors an implementation defines itself.
Overrides(fx) == IF fx = "Stub" THEN {"saturation", "moleFrac"} ELSE {}

\* The data members of an instance.
InitialData(fx) ==
    IF fx = "Stub"
    THEN [sat |-> <<30, 70>>, mf |-> << <<90, 10>>, <<5, 95>> >>]
    ELSE [sat |-> <<>>, mf |-> <<>>]

\* An implementation's own accessor: a table lookup, phase index first.
ImplAccessor(o, op, args) ==
    IF op = "saturation"
    THEN Returned(o.sat[args[1] + 1])
    ELSE Returned(o.mf[args[1] + 1][args[2] + 1])

\* The index arguments an implementation's own accessor is defined for.
InRange(op, args) ==
    /\ Len(args) >= 1 => args[1] \in 0..(StubPhases - 1)
    /\ Len(args) >= 2 => args[2] \in 0..(StubComponents - 1)

Implementations ==
    [fixture  : Fixtures,
     derives  : BOOLEAN,
     declared : SUBSET ConstNames,
     value    : [ConstNames -> 0..MaxCount]]

----------------------------------------------------------------------------
(* Compilation: binding the template to an Implementation *)

\* Qualified lookup of Implementation::n : the implementation's own
\* declaration hides the one inherited from FluidState.
Lookup(im, n) ==
    IF n \in im.declared
    THEN [found |-> TRUE, value |-> im.value[n]]
    ELSE IF im.derives /\ n \in BaseDeclared
         THEN [found |-> TRUE, value |-> EnumValue(n)]
         ELSE [found |-> FALSE, value |-> 0]

\* The constructor body compiles when every name it refers to is found.
CompilesValueChecked(im) ==
    /\ \A k \in DOMAIN CtorReferences : Lookup(im, CtorReferences[k]).found
    /\ Lookup(im, "numSolvents").value >= 1
    /\ Lookup(im, "numSolvents").value < Lookup(im, "numComponents").value
Compiles(im) ==
    \A k \in DOMAIN CtorReferences : Lookup(im, CtorReferences[k]).found

----------------------------------------------------------------------------
(* Accessor calls *)

\* The static types an instance can be accessed through.
Views(im) == IF im.derives THEN {"contract", "concrete"} ELSE {"contract"}

\* The body of the contract's accessor.
BaseAccessorBoundsChecked(im, o, op, args) ==
    IF \E k \in DOMAIN args : args[k] < 0
    THEN Thrown("RangeError", Message(op))
    ELSE Thrown("NotImplemented", Message(op))
BaseAccessorDelegating(im, o, op, args) ==
    IF op \in Overrides(im.fixture) /\ InRange(op, args)
    THEN ImplAccessor(o, op, args)
    ELSE Thrown("NotImplemented", Message(op))
BaseAccessor(im, o, op, args) == Thrown("NotImplemented", Message(op))

\* Which member function a call of op names: the members are not virtual,
\* so the static type decides, and a member of the implementation hides the
\* inherited one.
StaticTargetBaseOnly(im, view, op) == "base"
StaticTarget(im, view, op) ==
    IF view = "concrete" /\ op \in Overrides(im.fixture) THEN "impl" ELSE "base"

\* Calls whose behaviour is defined.
Admissible(im, view, op, args) ==
    StaticTarget(im, view, op) = "impl" => InRange(op, args)

Execute(im, o, view, op, args) ==
    IF StaticTarget(im, view, op) = "impl"
    THEN ImplAccessor(o, op, args)
    ELSE BaseAccessor(im, o, op, args)

\* The accessors are const members of a class without data members.
AccessorEffectScribble(o, op, args) ==
    [o EXCEPT !.sat = [k \in DOMAIN o.sat |-> 0]]
AccessorEffectResetMoleFrac(o, op, args) ==
    [o EXCEPT !.mf = [p \in DOMAIN o.mf |-> [c \in DOMAIN o.mf[p] |-> 0]]]
AccessorEffect(o, op, args) == o

----------------------------------------------------------------------------
(* State machine *)

NoCall == [view |-> "contract", op |-> "temperature", args |-> <<>>]

InitCommon ==
    /\ stage = "unbound"
    /\ resolved = [n \in ConstNames |-> [found |-> FALSE, value |-> 0]]
    /\ executed = {}
    /\ ctorI = <<>>
    /\ obj = InitialData(impl.fixture)
    /\ last = [done |-> FALSE, call |-> NoCall, outcome |-> NoOutcome]
    /\ ncalls = 0
    /\ pc = [t \in Readers |-> "idle"]
    /\ cur = [t \in Readers |-> NoCall]
    /\ ret = [t \in Readers |-> NoOutcome]

Init ==
    /\ impl \in Implementations
    /\ InitCommon

\* The compiler instantiates FluidState<Scalar, Implementation>::FluidState().
Bind ==
    /\ stage = "unbound"
    /\ resolved' = [n \in ConstNames |-> Lookup(impl, n)]
    /\ stage' = IF Compiles(impl) THEN "bound" ELSE "rejected"
    /\ UNCHANGED <<impl, executed, ctorI, obj, last, ncalls, pc, cur, ret>>

\* FluidState() runs.
Construct ==
    /\ stage = "bound"
    /\ stage' = "constructed"
    /\ IF CtorBranchTaken
       THEN /\ executed' = executed \cup ConstNames
            /\ ctorI' = <<resolved[CtorReferences[Len(CtorReferences)]].value>>
       ELSE UNCHANGED <<executed, ctorI>>
    /\ UNCHANGED <<impl, resolved, obj, last, ncalls, pc, cur, ret>>

\* One accessor call by the thread that owns the instance, start to end.
Call ==
    /\ stage = "constructed"
    /\ ~last.done
    /\ ncalls < MaxCalls
    /\ ncalls' = ncalls + 1
    /\ \E view \in Views(impl), op \in Accessors :
         \E args \in ArgSets(op) :
           /\ Admissible(impl, view, op, args)
           /\ last' = [done |-> TRUE,
                       call |-> [view |-> view, op |-> op, args |-> args],
                       outcome |-> Execute(impl, obj, view, op, args)]
           /\ obj' = AccessorEffect(obj, op, args)
    /\ UNCHANGED <<impl, stage, resolved, executed, ctorI, pc, cur, ret>>

\* The caller has consumed the outcome and goes on.
Continue ==
    /\ last.done
    /\ last' = [done |-> FALSE, call |-> NoCall, outcome |-> NoOutcome]
    /\ UNCHANGED <<impl, stage, resolved, executed, ctorI, obj, ncalls, pc, cur, ret>>

Next == Bind \/ Construct \/ Call \/ Continue

Spec == Init /\ [][Next]_vars

----------------------------------------------------------------------------
(* Concurrent readers of one instance *)

\* The reads a consumer issues: through either type, indices in range.
ReaderCalls ==
    { c \in [view : {"contract", "concrete"}, op : Accessors,
             args : UNION { ArgSets(op) : op \in Accessors }] :
        c.args \in ArgSets(c.op) /\ InRange(c.op, c.args) }

ReaderImplementations ==
    { im \in Implementations :
        /\ im.derives
        /\ im.declared = ConstNames
        /\ im.value["numPhases"] = StubPhases
        /\ im.value["numComponents"] = StubComponents
        /\ im.value["numSolvents"] \in {0, StubComponents} }

InitReaders ==
    /\ impl \in ReaderImplementations
    /\ InitCommon

\* Reader t enters an accessor.
Begin(t) ==
    /\ stage = "constructed"
    /\ pc[t] = "idle"
    /\ \E c \in ReaderCalls :
         /\ Admissible(impl, c.view, c.op, c.args)
         /\ cur' = [cur EXCEPT ![t] = c]
    /\ pc' = [pc EXCEPT ![t] = "called"]
    /\ UNCHANGED <<impl, stage, resolved, executed, ctorI, obj, last, ncalls, ret>>

\* The accessor body of reader t runs.
Finish(t) ==
    /\ pc[t] = "called"
    /\ ret' = [ret EXCEPT ![t] =
                 Execute(impl, obj, cur[t].view, cur[t].op, cur[t].args)]
    /\ obj' = AccessorEffect(obj, cur[t].op, cur[t].args)
    /\ pc' = [pc EXCEPT ![t] = "returned"]
    /\ UNCHANGED <<impl, stage, resolved, executed, ctorI, last, ncalls, cur>>

\* Reader t has consumed the outcome.
Return(t) ==
    /\ pc[t] = "returned"
    /\ pc' = [pc EXCEPT ![t] = "idle"]
    /\ cur' = [cur EXCEPT ![t] = NoCall]
    /\ ret' = [ret EXCEPT ![t] = NoOutcome]
    /\ UNCHANGED <<impl, stage, resolved, executed, ctorI, obj, last, ncalls>>

NextReaders ==
    \/ Bind
    \/ Construct
    \/ \E t \in Readers : Begin(t)
    \/ \E t \in Readers : Finish(t)
    \/ \E t \in Readers : Return(t)

SpecReaders == InitReaders /\ [][NextReaders]_vars

----------------------------------------------------------------------------
(* Properties *)

Bound == stage \in {"bound", "constructed"}
Called(view, op) ==
    last.done /\ last.call.view = view /\ last.call.op = op
NameOf(op) == "FluidState::" \o op \o "()"

RECURSIVE SumSeq(_)
SumSeq(q) == IF q = <<>> THEN 0 ELSE Head(q) + SumSeq(Tail(q))

\* What a call on the concrete type returns, as a value.
ConcreteValue(op, args) == Execute(impl, obj, "concrete", op, args).value

\* C1: for the minimal implementation (the three constants declared, no
\* accessor overridden) compilation and construction succeed, and every
\* accessor, for every index argument in or out of range and through either
\* static type, ends in the NotImplemented exception: no value is returned
\* and no other exception is thrown.
C1_MinimalAlwaysNotImplemented ==
    (impl.fixture = "Minimal" /\ impl.declared = ConstNames) =>
        /\ stage # "rejected"
        /\ stage = "bound" => ENABLED Construct
        /\ (stage = "constructed" /\ ncalls = 0) =>
             \A view \in Views(impl), op \in Accessors :
               \A args \in ArgSets(op) :
                 /\ Admissible(impl, view, op, args)
                 /\ Execute(impl, obj, view, op, args).kind = "NotImplemented"
        /\ last.done => last.outcome.kind = "NotImplemented"

C1_Witness ==
    /\ impl.fixture = "Minimal"
    /\ impl.declared = ConstNames
    /\ Called("concrete", "concentration")
    /\ last.call.args = <<0 - 1, MaxIdx>>
    /\ last.outcome.kind = "NotImplemented"

\* C2: the NotImplemented exception thrown by the default body of an
\* accessor carries the name of the accessor that was called.
C2_MessageNamesCalledAccessor ==
    (last.done /\ last.outcome.kind = "NotImplemented") =>
        last.outcome.msg = NameOf(last.call.op)

\* C3: binding an implementation compiles exactly when the implementation
\* declares all three of numPhases, numComponents and numSolvents, also when
\* it derives from FluidState<Scalar, Implementation>.
C3_OmittedConstantRejected ==
    stage # "unbound" => (Bound <=> impl.declared = ConstNames)

C5_ConstructorDoesNothing ==
    /\ executed = {}
    /\ ctorI = <<>>
    /\ stage = "bound" => ENABLED Construct
    /\ (stage = "constructed" /\ ncalls = 0) => obj = InitialData(impl.fixture)

C5_Witness ==
    /\ stage = "constructed"
    /\ impl.declared = ConstNames
    /\ impl.value["numSolvents"] > impl.value["numComponents"]
    /\ executed = {}

\* C6: accessor calls, failing ones included, leave the instance as it was,
\* and the outcome of a call is the outcome the same call has on the
\* instance as constructed.
C6_AccessorsArePureReads ==
    /\ obj = InitialData(impl.fixture)
    /\ last.done =>
         last.outcome = Execute(impl, InitialData(impl.fixture),
                                last.call.view, last.call.op, last.call.args)

C6_Witness ==
    /\ ncalls >= 2
    /\ impl.fixture = "Stub"
    /\ Called("concrete", "saturation")
    /\ last.outcome.kind = "value"
    /\ obj = InitialData(impl.fixture)

\* C7: an implementation declaring numSolvents = numComponents or
\* numSolvents = 0 is bound and constructed, for every numComponents; whether
\* binding compiles is the same for every choice of the constants' values.
C7_SolventBoundariesAccepted ==
    /\ ( /\ stage # "unbound"
         /\ impl.declared = ConstNames
         /\ \/ impl.value["numSolvents"] = impl.value["numComponents"]
            \/ impl.value["numSolvents"] = 0 )
       => (Bound /\ (stage = "bound" => ENABLED Construct))
    /\ stage # "unbound" =>
         \A v \in [ConstNames -> 0..MaxCount] :
           Compiles([impl EXCEPT !.value = v]) <=> Bound

C7_Witness ==
    /\ stage = "constructed"
    /\ impl.declared = ConstNames
    /\ impl.value["numComponents"] = MaxCount
    /\ impl.value["numSolvents"] = impl.value["numComponents"]

\* C8: with several threads reading one instance, in every interleaving each
\* call has the outcome it has on the instance as constructed, and the
\* instance never changes.
C8_ConcurrentReadersAgree ==
    /\ obj = InitialData(impl.fixture)
    /\ \A t \in Readers :
         pc[t] = "returned" =>
           ret[t] = Execute(impl, InitialData(impl.fixture),
                            cur[t].view, cur[t].op, cur[t].args)

C8_Witness ==
    /\ impl.fixture = "Stub"
    /\ pc[1] = "returned" /\ cur[1].op = "moleFrac" /\ ret[1] = Returned(95)
    /\ pc[2] = "called" /\ cur[2].op = "saturation"

\* C9: the contract declares the three constants with value 0 each; an
\* implementation that derives from it and declares none of them sees all
\* three with value 0, so 0 <= numSolvents <= numComponents, and a constant
\* the implementation declares hides the contract's.
C9_ContractConstantsAreZero ==
    /\ BaseDeclared = ConstNames
    /\ \A n \in ConstNames : EnumValue(n) = 0
    /\ (stage # "unbound" /\ impl.derives) =>
         /\ \A n \in ConstNames :
              /\ resolved[n].found
              /\ resolved[n].value =
                   IF n \in impl.declared THEN impl.value[n] ELSE 0
         /\ impl.declared = {} =>
              /\ 0 <= resolved["numSolvents"].value
              /\ resolved["numSolvents"].value
                   <= resolved["numComponents"].value

C9_Witness ==
    /\ stage = "constructed"
    /\ impl.derives
    /\ impl.declared = {"numPhases"}
    /\ impl.value["numPhases"] = MaxCount
    /\ resolved["numPhases"].value = MaxCount
    /\ resolved["numSolvents"] = [found |-> TRUE, value |-> 0]

\* C10: a call made through the contract type ends in NotImplemented even
\* where the implementation defines the accessor; a value is returned only
\* by calls made on the concrete type.
C10_ContractViewNeverDelegates ==
    last.done =>
        /\ last.call.view = "contract" => last.outcome.kind = "NotImplemented"
        /\ last.outcome.kind = "value" => last.call.view = "concrete"

C10_Witness ==
    /\ impl.fixture = "Stub"
    /\ Called("contract", "saturation")
    /\ last.call.args = <<0>>
    /\ last.outcome.kind = "NotImplemented"

====
